---- MODULE Spec2Model ----
(***************************************************************************)
(* SlicerSOFA: the lifecycle controller SlicerSofaLogic, the descriptor    *)
(* SofaNodeMapper, the registry built by sofaParameterNodeWrapper and the  *)
(* two synchronisation passes __updateSofa__ (Push) and __updateMRML__     *)
(* (Pull) of src/SlicerSofa/SlicerSofa.py.                                 *)
(*                                                                         *)
(* Environment: the engine graph behind a root handle does not change      *)
(* while the controller holds it, and a mover, once invoked, returns       *)
(* normally.  The failures modelled are the ones the module's own          *)
(* statements produce: ValueError, AttributeError (attribute access on an  *)
(* object without it) and the failed lookup rootNode[name].                *)
(***************************************************************************)
EXTENDS Integers, Sequences, FiniteSets, TLC

VARIABLES
    sceneUp,                \* SlicerSofaLogic._sceneUp
    rootNode,               \* SlicerSofaLogic._rootNode
    parameterNode,          \* SlicerSofaLogic._parameterNode
    currentStep,            \* parameterNode.currentStep, per container
    isSimulationRunning,    \* parameterNode.isSimulationRunning, per container
    totalSteps,             \* parameterNode.totalSteps, per container
    registry,               \* cls.__sofa_node_mappers__
    inputMapping_has_run,   \* SofaNodeMapper.inputMapping_has_run, per field
    outputMapping_has_run,  \* SofaNodeMapper.outputMapping_has_run, per field
    op,                     \* the last call made on the controller
    raised,                 \* the exception that call raised, or NoError
    log,                    \* what that call did to the engine, the movers and the display
    stepCalls,              \* simulationStep calls made in a row since startSimulation on a Built scene; -1: none counted
    restarted,              \* that startSimulation found a bounded run that had stopped by itself
    cleanCalls,             \* clean calls made in a row (counted up to 2)
    advances,               \* engine steps since startSimulation on a Built scene with no clean since; -1: none counted
    inputRuns,              \* invocations so far of each run-once input mover
    outputRuns,             \* invocations so far of each run-once output mover
    classDict,              \* cls.__dict__ of a class being declared: <<field name, value>> in declaration order
    made,                   \* the last call SofaNodeMapper(...): its arguments and what it gave
    mappers,                \* __sofa_node_mappers__ of that class, once wrapped: <<field name, value>> in order
    wraps                   \* times sofaParameterNodeWrapper has derived mappers from the class (counted up to 2)

vars == <<sceneUp, rootNode, parameterNode, currentStep, isSimulationRunning,
          totalSteps, registry, inputMapping_has_run, outputMapping_has_run,
          op, raised, log, stepCalls, restarted, cleanCalls, advances, inputRuns, outputRuns,
          classDict, made, mappers, wraps>>

---------------------------------------------------------------------------
(* Bounds *)

MaxTotalSteps == 1
MaxRuns == 2
\* simulationStep calls counted in a row: enough to pass the bound of every run.
MaxStepCalls == MaxTotalSteps + 2
\* Fields declared in the body of a class.
MaxDecl == 2

---------------------------------------------------------------------------
(* Values *)

None == "None"
NoError == "none"
ValueError == "ValueError"            \* the spec's InvalidArgument
AttributeError == "AttributeError"
NodeNotFound == "NodeNotFound"        \* rootNode[name] with no such node

\* Containers wrapped by sofaParameterNodeWrapper (instances of one class).
Containers == {"P1", "P2"}
\* What a caller may pass as parameterNode.
ContainerArgs == Containers \cup {None, "Unwrapped", "WrappedFalse", "WrappedOne"}

\* Root handles that are Sofa.Core.Node, and what a caller may pass as rootNode.
Roots == {"R1", "R2"}
RootArgs == Roots \cup {"NotANode"}

\* Names of the child nodes of each graph.
Graph(r) == IF r = "R1" THEN {"FEM"} ELSE {}

\* Declared descriptor fields, in declaration (dict insertion) order.
FieldOrder == <<"f1", "f2">>
Fields == {FieldOrder[i] : i \in 1..Len(FieldOrder)}

\* The node names a field is declared with: unset (None) or empty for the
\* root, or the name of a child node.
NodeNames(f) == IF f = "f1" THEN {None, "FEM"} ELSE {"", "FEM"}
\* A mover: absent, a callable, or a callable decorated with run_once.
Movers == {None, "Every", "Once"}

\* SofaNodeMapper.__init__: the descriptors a class can declare.  Both has-run
\* flags start False (kept per field in the two has_run variables).
SofaNodeMapper(f) == [nodeName : NodeNames(f), inputMapping : Movers, outputMapping : Movers]

\* sofaParameterNodeWrapper: the registries a class can end up with, one
\* descriptor per declared descriptor field.
Registries == {g \in [Fields -> UNION {SofaNodeMapper(f) : f \in Fields}] :
                 \A f \in Fields : g[f] \in SofaNodeMapper(f)}

\* getattr(mapping, 'run_once', False): set by the run_once decorator only.
run_once(mapping) == mapping = "Once"

\* The value of the attribute sofaParameterNodeWrapped of a container argument.
sofaParameterNodeWrapped(c) ==
    CASE c \in Containers -> "True"
      [] c = "WrappedFalse" -> "False"
      [] c = "WrappedOne"   -> "1"
      [] OTHER              -> "absent"

\* __checkParameterNode__: what it raises for a container argument.
\* getattr has no default, so a container without the attribute raises
\* AttributeError before the ValueError of the second test is reached.
CheckParameterNode(c) ==
    IF c = None THEN ValueError
    ELSE IF sofaParameterNodeWrapped(c) = "absent" THEN AttributeError
    ELSE IF sofaParameterNodeWrapped(c) = "False" THEN ValueError
    ELSE IF sofaParameterNodeWrapped(c) # "True" THEN ValueError
    ELSE NoError

\* isinstance(rootNode, Sofa.Core.Node)
IsSofaNode(r) == r \in Roots

\* ResolveNode that looks every name up, the unset and the empty one too.
ResolveNode_NoRootDefault(r, name) == IF name \in Graph(r) THEN name ELSE None

\* `self._rootNode[name] if name else self._rootNode`: the node a descriptor
\* name resolves to under a root ("root" for the root itself), or None when
\* the lookup fails.
ResolveNode(r, name) ==
    IF name = None \/ name = "" THEN "root"
    ELSE IF name \in Graph(r) THEN name
    ELSE None

Bump(n) == IF n < MaxRuns THEN n + 1 ELSE n

Event(kind, field, target) == <<kind, field, target>>
HasEvent(lg, kind) == \E i \in 1..Len(lg) : lg[i][1] = kind
CountEvents(lg, kind) == Cardinality({i \in 1..Len(lg) : lg[i][1] = kind})

\* The loop of __updateSofa__ from field i on: st is [raised, has_run, runs, log].
RECURSIVE UpdateSofaFrom(_, _, _)
UpdateSofaFrom(i, r, st) ==
    IF i > Len(FieldOrder) THEN st
    ELSE LET f == FieldOrder[i]
             m == registry[f]
         IN  IF m.inputMapping = None THEN UpdateSofaFrom(i + 1, r, st)
             ELSE IF run_once(m.inputMapping) /\ st.has_run[f]
                  THEN UpdateSofaFrom(i + 1, r, st)
             ELSE IF ResolveNode(r, m.nodeName) = None
                  THEN [st EXCEPT !.raised = NodeNotFound]
             ELSE UpdateSofaFrom(i + 1, r,
                    [st EXCEPT
                       !.log = Append(@, Event("inputMapping", f, ResolveNode(r, m.nodeName))),
                       !.has_run = IF run_once(m.inputMapping)
                                   THEN [@ EXCEPT ![f] = TRUE] ELSE @,
                       !.runs = IF run_once(m.inputMapping)
                                THEN [@ EXCEPT ![f] = Bump(@)] ELSE @])

\* __updateSofa__ (Push) on root r, appended to log lg.
UpdateSofa(r, lg) ==
    UpdateSofaFrom(1, r, [raised |-> NoError, has_run |-> inputMapping_has_run,
                          runs |-> inputRuns,
                          log |-> Append(lg, Event("__updateSofa__", "", r))])

\* The loop of __updateMRML__ from field i on.
RECURSIVE UpdateMRMLFrom(_, _, _)
UpdateMRMLFrom(i, r, st) ==
    IF i > Len(FieldOrder) THEN st
    ELSE LET f == FieldOrder[i]
             m == registry[f]
         IN  IF m.outputMapping = None THEN UpdateMRMLFrom(i + 1, r, st)
             ELSE IF run_once(m.outputMapping) /\ st.has_run[f]
                  THEN UpdateMRMLFrom(i + 1, r, st)
             ELSE IF ResolveNode(r, m.nodeName) = None
                  THEN [st EXCEPT !.raised = NodeNotFound]
             ELSE UpdateMRMLFrom(i + 1, r,
                    [st EXCEPT
                       !.log = Append(@, Event("outputMapping", f, ResolveNode(r, m.nodeName))),
                       !.has_run = IF run_once(m.outputMapping)
                                   THEN [@ EXCEPT ![f] = TRUE] ELSE @,
                       !.runs = IF run_once(m.outputMapping)
                                THEN [@ EXCEPT ![f] = Bump(@)] ELSE @])

\* __updateMRML__ that runs the loop of __updateSofa__: the input movers again.
UpdateMRML_UsesInputMapping(r, lg) ==
    UpdateSofaFrom(1, r, [raised |-> NoError, has_run |-> outputMapping_has_run,
                          runs |-> outputRuns,
                          log |-> Append(lg, Event("__updateMRML__", "", r))])

\* __updateMRML__ (Pull) on root r, appended to log lg.
UpdateMRML(r, lg) ==
    UpdateMRMLFrom(1, r, [raised |-> NoError, has_run |-> outputMapping_has_run,
                          runs |-> outputRuns,
                          log |-> Append(lg, Event("__updateMRML__", "", r))])

\* StepBranch with the bound compared by <= (one step too many).
StepBranch_OffByOne(cur, total) ==
    IF cur <= total THEN "advance"
    ELSE IF total < 0 THEN "animate"
    ELSE "stop"

\* StepBranch without the branch for a negative totalSteps.
StepBranch_NoUnbounded(cur, total) ==
    IF cur < total THEN "advance" ELSE "stop"

\* StepBranch that advances the engine below the bound without counting it.
StepBranch_NoIncrement(cur, total) ==
    IF cur < total \/ total < 0 THEN "animate" ELSE "stop"

\* The branch simulationStep takes after Push.
StepBranch(cur, total) ==
    IF cur < total THEN "advance"
    ELSE IF total < 0 THEN "animate"
    ELSE "stop"

---------------------------------------------------------------------------
(* Declaring a class: SofaNodeMapper(...) and sofaParameterNodeWrapper *)

TypeError == "TypeError"

\* What a caller may pass as inputMapping or outputMapping.
MoverArgs == Movers \cup {"NotCallable"}
\* callable(mapping)
Callable(mapping) == mapping \in {"Every", "Once"}

\* A value of a class attribute: kind is its type, and mapper the descriptor
\* when the kind is SofaNodeMapper (NoMapper otherwise).
NoMapper == [nodeName |-> None, inputMapping |-> None, outputMapping |-> None,
             inputMapping_has_run |-> FALSE, outputMapping_has_run |-> FALSE]
Plain(kind) == [kind |-> kind, mapper |-> NoMapper]
Mapper(m) == [kind |-> "SofaNodeMapper", mapper |-> m]

\* SofaNodeMapper.__init__ that tests inputMapping only.
SofaNodeMapper_init_InputOnly(nodeName, inputMapping, outputMapping) ==
    IF inputMapping # None /\ ~Callable(inputMapping)
    THEN [raised |-> ValueError, value |-> Plain("None")]
    ELSE [raised |-> NoError,
          value |-> Mapper([nodeName |-> nodeName, inputMapping |-> inputMapping,
                            outputMapping |-> outputMapping,
                            inputMapping_has_run |-> FALSE,
                            outputMapping_has_run |-> FALSE])]

\* SofaNodeMapper.__init__: what the call raises and the descriptor it gives.
SofaNodeMapper_init(nodeName, inputMapping, outputMapping) ==
    IF inputMapping # None /\ ~Callable(inputMapping)
    THEN [raised |-> ValueError, value |-> Plain("None")]
    ELSE IF outputMapping # None /\ ~Callable(outputMapping)
    THEN [raised |-> ValueError, value |-> Plain("None")]
    ELSE [raised |-> NoError,
          value |-> Mapper([nodeName |-> nodeName, inputMapping |-> inputMapping,
                            outputMapping |-> outputMapping,
                            inputMapping_has_run |-> FALSE,
                            outputMapping_has_run |-> FALSE])]

\* The control fields of the wrapper with their types, in the order of its calls.
ControlFields == << <<"dt", "float">>, <<"totalSteps", "int">>, <<"currentStep", "int">>,
                    <<"isSimulationRunning", "bool">>,
                    <<"sofaParameterNodeWrapped", "bool">> >>
ControlNames == {ControlFields[i][1] : i \in 1..Len(ControlFields)}

\* The names a class body declares, and the types of its plain values.
DeclNames == {"dt", "f1", "u1"}
PlainKinds == {"float", "int"}

Declared(dict) == {dict[i][1] : i \in 1..Len(dict)}
ValueOf(dict, name) == dict[CHOOSE i \in 1..Len(dict) : dict[i][1] = name][2]

\* hasattr(cls, var): the attribute is there and reading it does not raise
\* AttributeError.  Reading a SofaNodeMapper on the class calls its __get__,
\* which returns self.value, an attribute no call has set.
HasAttr(dict, var) ==
    var \in Declared(dict) /\ ValueOf(dict, var).kind # "SofaNodeMapper"

\* isinstance(value, expectedType); bool is a subclass of int.
IsInstance(kind, expectedType) ==
    kind = expectedType \/ (kind = "bool" /\ expectedType = "int")

\* setattr(cls, var, value): a dict keeps the place of a key it has.
SetAttr(dict, var, value) ==
    IF var \in Declared(dict)
    THEN [i \in 1..Len(dict) |-> IF dict[i][1] = var THEN <<var, value>> ELSE dict[i]]
    ELSE Append(dict, <<var, value>>)

\* __checkAndCreate__(cls, var, expectedType, defaultValue)
CheckAndCreate(dict, var, expectedType) ==
    IF HasAttr(dict, var)
    THEN IF IsInstance(ValueOf(dict, var).kind, expectedType)
         THEN [raised |-> NoError, dict |-> dict]
         ELSE [raised |-> TypeError, dict |-> dict]
    ELSE [raised |-> NoError, dict |-> SetAttr(dict, var, Plain(expectedType))]

\* The five calls of __checkAndCreate__, from call i on.
RECURSIVE CheckAndCreateFrom(_, _)
CheckAndCreateFrom(i, dict) ==
    IF i > Len(ControlFields) THEN [raised |-> NoError, dict |-> dict]
    ELSE LET one == CheckAndCreate(dict, ControlFields[i][1], ControlFields[i][2])
         IN  IF one.raised # NoError THEN one
             ELSE CheckAndCreateFrom(i + 1, one.dict)

\* The loop over cls.__dict__.items(): the attributes that are descriptors.
ScanMappers(dict) == SelectSeq(dict, LAMBDA e : e[2].kind = "SofaNodeMapper")

\* sofaParameterNodeWrapper(cls): what it raises, cls.__dict__ afterwards and
\* the __sofa_node_mappers__ it attaches.
sofaParameterNodeWrapper(dict) ==
    LET st == CheckAndCreateFrom(1, dict)
    IN  [raised |-> st.raised, dict |-> st.dict,
         mappers |-> IF st.raised = NoError THEN ScanMappers(st.dict) ELSE <<>>]

NoCall == [nodeName |-> None, inputMapping |-> None, outputMapping |-> None,
           value |-> Plain("None")]

declVars == <<classDict, made, mappers, wraps>>
logicVars == <<sceneUp, rootNode, parameterNode, currentStep, isSimulationRunning,
               totalSteps, registry, inputMapping_has_run, outputMapping_has_run,
               log, stepCalls, restarted, cleanCalls, advances, inputRuns, outputRuns>>

\* No class is being declared.
NoDecl ==
    /\ classDict = <<>>
    /\ made = NoCall
    /\ mappers = <<>>
    /\ wraps = 0

\* SofaNodeMapper(nodeName = n, inputMapping = i, outputMapping = o)
NewSofaNodeMapper(n, i, o) ==
    /\ wraps = 0
    /\ op' = "SofaNodeMapper"
    /\ raised' = SofaNodeMapper_init(n, i, o).raised
    /\ made' = [nodeName |-> n, inputMapping |-> i, outputMapping |-> o,
                value |-> SofaNodeMapper_init(n, i, o).value]
    /\ UNCHANGED <<classDict, mappers, wraps, logicVars>>

\* `name = <the descriptor just made>` in the class body
DeclareMapper(name) ==
    /\ wraps = 0
    /\ op = "SofaNodeMapper"
    /\ raised = NoError
    /\ Len(classDict) < MaxDecl
    /\ name \notin Declared(classDict)
    /\ op' = "declare"
    /\ raised' = NoError
    /\ classDict' = Append(classDict, <<name, made.value>>)
    /\ UNCHANGED <<made, mappers, wraps, logicVars>>

\* `name = <a plain value>` in the class body
DeclarePlain(name, kind) ==
    /\ wraps = 0
    /\ Len(classDict) < MaxDecl
    /\ name \notin Declared(classDict)
    /\ op' = "declare"
    /\ raised' = NoError
    /\ classDict' = Append(classDict, <<name, Plain(kind)>>)
    /\ UNCHANGED <<made, mappers, wraps, logicVars>>

\* @sofaParameterNodeWrapper on the class, the first time or again
Wrap ==
    /\ op' = "sofaParameterNodeWrapper"
    /\ raised' = sofaParameterNodeWrapper(classDict).raised
    /\ classDict' = sofaParameterNodeWrapper(classDict).dict
    /\ IF sofaParameterNodeWrapper(classDict).raised = NoError
       THEN /\ mappers' = sofaParameterNodeWrapper(classDict).mappers
            /\ wraps' = IF wraps < 2 THEN wraps + 1 ELSE wraps
       ELSE UNCHANGED <<mappers, wraps>>
    /\ UNCHANGED <<made, logicVars>>

---------------------------------------------------------------------------
(* State after construction *)

\* SlicerSofaLogic.__init__, with the class defaults the wrapper creates
\* (currentStep 0, isSimulationRunning False, totalSteps the class's value).
Init ==
    /\ sceneUp = FALSE
    /\ rootNode = None
    /\ parameterNode = None
    /\ currentStep = [c \in Containers |-> 0]
    /\ isSimulationRunning = [c \in Containers |-> FALSE]
    /\ \E n \in -1..MaxTotalSteps : totalSteps = [c \in Containers |-> n]
    /\ registry \in Registries
    /\ inputMapping_has_run = [f \in Fields |-> FALSE]
    /\ outputMapping_has_run = [f \in Fields |-> FALSE]
    /\ op = "__init__"
    /\ raised = NoError
    /\ log = <<>>
    /\ stepCalls = -1
    /\ restarted = FALSE
    /\ cleanCalls = 0
    /\ advances = -1
    /\ inputRuns = [f \in Fields |-> 0]
    /\ outputRuns = [f \in Fields |-> 0]
    /\ NoDecl

---------------------------------------------------------------------------
(* Operations *)

\* AlreadyBuilt without the test: setupScene builds again each time.
AlreadyBuilt_Never == FALSE

\* The first test of setupScene: the call returns at once.
AlreadyBuilt == sceneUp

\* setupScene(parameterNode = c, rootNode = r)
setupScene(c, r) ==
    /\ op' = "setupScene"
    /\ stepCalls' = -1
    /\ UNCHANGED advances
    /\ restarted' = FALSE
    /\ cleanCalls' = 0
    /\ UNCHANGED <<currentStep, isSimulationRunning, totalSteps, registry,
                   outputMapping_has_run, outputRuns>>
    /\ IF AlreadyBuilt
       THEN /\ raised' = NoError
            /\ log' = <<>>
            /\ UNCHANGED <<sceneUp, rootNode, parameterNode, inputMapping_has_run, inputRuns>>
       ELSE IF CheckParameterNode(c) # NoError
       THEN /\ raised' = CheckParameterNode(c)
            /\ log' = <<>>
            /\ UNCHANGED <<sceneUp, rootNode, parameterNode, inputMapping_has_run, inputRuns>>
       ELSE IF ~IsSofaNode(r)
       THEN /\ parameterNode' = c
            /\ raised' = ValueError
            /\ log' = <<>>
            /\ UNCHANGED <<sceneUp, rootNode, inputMapping_has_run, inputRuns>>
       ELSE LET push == UpdateSofa(r, <<>>)
            IN  /\ parameterNode' = c
                /\ rootNode' = r
                /\ inputMapping_has_run' = push.has_run
                /\ inputRuns' = push.runs
                /\ raised' = push.raised
                /\ IF push.raised = NoError
                   THEN /\ log' = Append(push.log, Event("init", "", r))
                        /\ sceneUp' = TRUE
                   ELSE /\ log' = push.log
                        /\ UNCHANGED sceneUp

\* startSimulation that does not reset currentStep.
startSimulation_NoReset ==
    /\ op' = "startSimulation"
    /\ log' = <<>>
    /\ cleanCalls' = 0
    /\ UNCHANGED <<sceneUp, rootNode, parameterNode, totalSteps, registry, currentStep,
                   inputMapping_has_run, outputMapping_has_run, inputRuns, outputRuns>>
    /\ IF parameterNode = None
       THEN /\ raised' = AttributeError
            /\ stepCalls' = -1
            /\ advances' = -1
            /\ restarted' = FALSE
            /\ UNCHANGED isSimulationRunning
       ELSE /\ raised' = NoError
            /\ isSimulationRunning' = [isSimulationRunning EXCEPT ![parameterNode] = TRUE]
            /\ stepCalls' = IF sceneUp THEN 0 ELSE -1
            /\ advances' = IF sceneUp THEN 0 ELSE -1
            /\ restarted' = (/\ sceneUp
                             /\ op = "simulationStep"
                             /\ stepCalls = totalSteps[parameterNode] + 1
                             /\ ~isSimulationRunning[parameterNode])

\* startSimulation()
startSimulation ==
    /\ op' = "startSimulation"
    /\ log' = <<>>
    /\ cleanCalls' = 0
    /\ UNCHANGED <<sceneUp, rootNode, parameterNode, totalSteps, registry,
                   inputMapping_has_run, outputMapping_has_run, inputRuns, outputRuns>>
    /\ IF parameterNode = None
       THEN /\ raised' = AttributeError
            /\ stepCalls' = -1
            /\ advances' = -1
            /\ restarted' = FALSE
            /\ UNCHANGED <<currentStep, isSimulationRunning>>
       ELSE /\ raised' = NoError
            /\ currentStep' = [currentStep EXCEPT ![parameterNode] = 0]
            /\ isSimulationRunning' = [isSimulationRunning EXCEPT ![parameterNode] = TRUE]
            /\ stepCalls' = IF sceneUp THEN 0 ELSE -1
            /\ advances' = IF sceneUp THEN 0 ELSE -1
            /\ restarted' = (/\ sceneUp
                             /\ op = "simulationStep"
                             /\ stepCalls = totalSteps[parameterNode] + 1
                             /\ ~isSimulationRunning[parameterNode])

\* stopSimulation without the test of the scene-up flag.
stopSimulation_NoGuard ==
    /\ op' = "stopSimulation"
    /\ UNCHANGED advances
    /\ log' = <<>>
    /\ raised' = NoError
    /\ stepCalls' = -1
    /\ restarted' = FALSE
    /\ cleanCalls' = 0
    /\ UNCHANGED <<sceneUp, rootNode, parameterNode, currentStep, totalSteps, registry,
                   inputMapping_has_run, outputMapping_has_run, inputRuns, outputRuns>>
    /\ IF parameterNode # None
       THEN isSimulationRunning' = [isSimulationRunning EXCEPT ![parameterNode] = FALSE]
       ELSE UNCHANGED isSimulationRunning

\* stopSimulation()
stopSimulation ==
    /\ op' = "stopSimulation"
    /\ UNCHANGED advances
    /\ log' = <<>>
    /\ raised' = NoError
    /\ stepCalls' = -1
    /\ restarted' = FALSE
    /\ cleanCalls' = 0
    /\ UNCHANGED <<sceneUp, rootNode, parameterNode, currentStep, totalSteps, registry,
                   inputMapping_has_run, outputMapping_has_run, inputRuns, outputRuns>>
    /\ IF sceneUp = TRUE
       THEN isSimulationRunning' = [isSimulationRunning EXCEPT ![parameterNode] = FALSE]
       ELSE UNCHANGED isSimulationRunning

\* StepRefused without the test of isSimulationRunning.
StepRefused_SceneOnly == sceneUp = FALSE

\* The first test of simulationStep: the call is refused.
StepRefused == sceneUp = FALSE \/ isSimulationRunning[parameterNode] = FALSE

\* simulationStep that returns once it has stopped the run, without Pull.
simulationStep_StopSkipsPull ==
    /\ op' = "simulationStep"
    /\ stepCalls' = IF stepCalls >= 0 /\ stepCalls < MaxStepCalls THEN stepCalls + 1 ELSE -1
    /\ restarted' = (restarted /\ stepCalls >= 0 /\ stepCalls < MaxStepCalls)
    /\ cleanCalls' = 0
    /\ UNCHANGED <<sceneUp, rootNode, parameterNode, totalSteps, registry>>
    /\ IF StepRefused
       THEN /\ raised' = NoError
            /\ log' = <<Event("errorDisplay", "", "")>>
            /\ UNCHANGED <<currentStep, isSimulationRunning, inputMapping_has_run,
                           outputMapping_has_run, inputRuns, outputRuns>>
       ELSE LET p == parameterNode
                push == UpdateSofa(rootNode, <<>>)
                branch == StepBranch(currentStep[p], totalSteps[p])
                mid == IF branch = "stop" THEN push.log
                       ELSE Append(push.log, Event("animate", "", rootNode))
                pull == UpdateMRML(rootNode, mid)
            IN  /\ inputMapping_has_run' = push.has_run
                /\ inputRuns' = push.runs
                /\ IF push.raised # NoError
                   THEN /\ raised' = push.raised
                        /\ log' = push.log
                        /\ UNCHANGED <<currentStep, isSimulationRunning,
                                       outputMapping_has_run, outputRuns>>
                   ELSE /\ currentStep' = IF branch = "advance"
                                          THEN [currentStep EXCEPT ![p] = @ + 1]
                                          ELSE currentStep
                        /\ isSimulationRunning' = IF branch = "stop"
                                                  THEN [isSimulationRunning EXCEPT ![p] = FALSE]
                                                  ELSE isSimulationRunning
                        /\ IF branch = "stop"
                           THEN /\ UNCHANGED <<outputMapping_has_run, outputRuns>>
                                /\ raised' = NoError
                                /\ log' = push.log
                           ELSE /\ outputMapping_has_run' = pull.has_run
                                /\ outputRuns' = pull.runs
                                /\ raised' = pull.raised
                                /\ log' = pull.log
    /\ advances' = IF advances >= 0 /\ advances < MaxStepCalls /\ HasEvent(log', "animate")
                   THEN advances + 1 ELSE advances

\* simulationStep()
simulationStep ==
    /\ op' = "simulationStep"
    /\ stepCalls' = IF stepCalls >= 0 /\ stepCalls < MaxStepCalls THEN stepCalls + 1 ELSE -1
    /\ restarted' = (restarted /\ stepCalls >= 0 /\ stepCalls < MaxStepCalls)
    /\ cleanCalls' = 0
    /\ UNCHANGED <<sceneUp, rootNode, parameterNode, totalSteps, registry>>
    /\ IF StepRefused
       THEN /\ raised' = NoError
            /\ log' = <<Event("errorDisplay", "", "")>>
            /\ UNCHANGED <<currentStep, isSimulationRunning, inputMapping_has_run,
                           outputMapping_has_run, inputRuns, outputRuns>>
       ELSE LET p == parameterNode
                push == UpdateSofa(rootNode, <<>>)
                branch == StepBranch(currentStep[p], totalSteps[p])
                mid == IF branch = "stop" THEN push.log
                       ELSE Append(push.log, Event("animate", "", rootNode))
                pull == UpdateMRML(rootNode, mid)
            IN  /\ inputMapping_has_run' = push.has_run
                /\ inputRuns' = push.runs
                /\ IF push.raised # NoError
                   THEN /\ raised' = push.raised
                        /\ log' = push.log
                        /\ UNCHANGED <<currentStep, isSimulationRunning,
                                       outputMapping_has_run, outputRuns>>
                   ELSE /\ currentStep' = IF branch = "advance"
                                          THEN [currentStep EXCEPT ![p] = @ + 1]
                                          ELSE currentStep
                        /\ isSimulationRunning' = IF branch = "stop"
                                                  THEN [isSimulationRunning EXCEPT ![p] = FALSE]
                                                  ELSE isSimulationRunning
                        /\ outputMapping_has_run' = pull.has_run
                        /\ outputRuns' = pull.runs
                        /\ raised' = pull.raised
                        /\ log' = pull.log
    /\ advances' = IF advances >= 0 /\ advances < MaxStepCalls /\ HasEvent(log', "animate")
                   THEN advances + 1 ELSE advances

\* The test of clean: there is a scene to tear down.
CleanGuard == sceneUp = TRUE /\ rootNode # None

\* clean that unloads the graph and resets nothing.
clean_NoReset ==
    /\ op' = "clean"
    /\ raised' = NoError
    /\ stepCalls' = -1
    /\ advances' = -1
    /\ restarted' = FALSE
    /\ cleanCalls' = IF cleanCalls < 2 THEN cleanCalls + 1 ELSE cleanCalls
    /\ UNCHANGED <<parameterNode, currentStep, totalSteps, registry,
                   inputMapping_has_run, outputMapping_has_run, inputRuns, outputRuns>>
    /\ IF CleanGuard
       THEN /\ log' = <<Event("unload", "", rootNode)>>
            /\ UNCHANGED <<sceneUp, rootNode, isSimulationRunning>>
       ELSE /\ log' = <<>>
            /\ UNCHANGED <<sceneUp, rootNode, isSimulationRunning>>

\* clean that also resets the has-run flags of the descriptors.
clean_ResetsHasRun ==
    /\ op' = "clean"
    /\ raised' = NoError
    /\ stepCalls' = -1
    /\ advances' = -1
    /\ restarted' = FALSE
    /\ cleanCalls' = IF cleanCalls < 2 THEN cleanCalls + 1 ELSE cleanCalls
    /\ UNCHANGED <<parameterNode, currentStep, totalSteps, registry, inputRuns, outputRuns>>
    /\ IF CleanGuard
       THEN /\ log' = <<Event("unload", "", rootNode)>>
            /\ rootNode' = None
            /\ sceneUp' = FALSE
            /\ isSimulationRunning' = [isSimulationRunning EXCEPT ![parameterNode] = FALSE]
            /\ inputMapping_has_run' = [f \in Fields |-> FALSE]
            /\ outputMapping_has_run' = [f \in Fields |-> FALSE]
       ELSE /\ log' = <<>>
            /\ UNCHANGED <<sceneUp, rootNode, isSimulationRunning,
                           inputMapping_has_run, outputMapping_has_run>>

\* clean that leaves isSimulationRunning as it was.
clean_KeepsRunning ==
    /\ op' = "clean"
    /\ raised' = NoError
    /\ stepCalls' = -1
    /\ advances' = -1
    /\ restarted' = FALSE
    /\ cleanCalls' = IF cleanCalls < 2 THEN cleanCalls + 1 ELSE cleanCalls
    /\ UNCHANGED <<parameterNode, currentStep, totalSteps, registry, isSimulationRunning,
                   inputMapping_has_run, outputMapping_has_run, inputRuns, outputRuns>>
    /\ IF CleanGuard
       THEN /\ log' = <<Event("unload", "", rootNode)>>
            /\ rootNode' = None
            /\ sceneUp' = FALSE
       ELSE /\ log' = <<>>
            /\ UNCHANGED <<sceneUp, rootNode>>

\* clean()
clean ==
    /\ op' = "clean"
    /\ raised' = NoError
    /\ stepCalls' = -1
    /\ advances' = -1
    /\ restarted' = FALSE
    /\ cleanCalls' = IF cleanCalls < 2 THEN cleanCalls + 1 ELSE cleanCalls
    /\ UNCHANGED <<parameterNode, currentStep, totalSteps, registry,
                   inputMapping_has_run, outputMapping_has_run, inputRuns, outputRuns>>
    /\ IF CleanGuard
       THEN /\ log' = <<Event("unload", "", rootNode)>>
            /\ rootNode' = None
            /\ sceneUp' = FALSE
            /\ isSimulationRunning' = [isSimulationRunning EXCEPT ![parameterNode] = FALSE]
       ELSE /\ log' = <<>>
            /\ UNCHANGED <<sceneUp, rootNode, isSimulationRunning>>

Next ==
    \/ \E c \in ContainerArgs, r \in RootArgs : setupScene(c, r) /\ UNCHANGED declVars
    \/ startSimulation /\ UNCHANGED declVars
    \/ stopSimulation /\ UNCHANGED declVars
    \/ simulationStep /\ UNCHANGED declVars
    \/ clean /\ UNCHANGED declVars

Spec == Init /\ [][Next]_vars

\* A class is declared and wrapped; no controller call is made.
InitDecl ==
    /\ sceneUp = FALSE
    /\ rootNode = None
    /\ parameterNode = None
    /\ currentStep = [c \in Containers |-> 0]
    /\ isSimulationRunning = [c \in Containers |-> FALSE]
    /\ totalSteps = [c \in Containers |-> -1]
    /\ registry = [f \in Fields |-> [nodeName |-> "FEM", inputMapping |-> None,
                                      outputMapping |-> None]]
    /\ inputMapping_has_run = [f \in Fields |-> FALSE]
    /\ outputMapping_has_run = [f \in Fields |-> FALSE]
    /\ op = "__init__"
    /\ raised = NoError
    /\ log = <<>>
    /\ stepCalls = -1
    /\ restarted = FALSE
    /\ cleanCalls = 0
    /\ advances = -1
    /\ inputRuns = [f \in Fields |-> 0]
    /\ outputRuns = [f \in Fields |-> 0]
    /\ NoDecl

NextDecl ==
    \/ \E n \in {"FEM"}, i \in MoverArgs, o \in MoverArgs : NewSofaNodeMapper(n, i, o)
    \/ \E name \in DeclNames : DeclareMapper(name)
    \/ \E name \in DeclNames, kind \in PlainKinds : DeclarePlain(name, kind)
    \/ Wrap

SpecDecl == InitDecl /\ [][NextDecl]_vars

---------------------------------------------------------------------------
(* Properties *)

\* What every call but the ones that mention them leaves alone.
Descriptors == <<registry, inputMapping_has_run, outputMapping_has_run, inputRuns, outputRuns>>
Controller == <<sceneUp, rootNode, parameterNode>>
Fields_of_containers == <<currentStep, isSimulationRunning, totalSteps>>

\* C1: with totalSteps = N >= 0, after setupScene and startSimulation, k <= N
\* simulationStep calls in a row leave isSimulationRunning true and
\* currentStep = k, each of them having advanced the engine; call N+1 sets
\* isSimulationRunning false, leaves currentStep at N and does not advance
\* the engine (for N = 0 that is the very first call).
C1_BoundedRun ==
    (stepCalls >= 0 /\ totalSteps[parameterNode] >= 0) =>
        LET p == parameterNode
            N == totalSteps[p]
        IN  /\ sceneUp
            /\ stepCalls <= N => /\ isSimulationRunning[p]
                                 /\ currentStep[p] = stepCalls
                                 /\ stepCalls >= 1 => CountEvents(log, "animate") = 1
            /\ stepCalls = N + 1 => /\ ~isSimulationRunning[p]
                                    /\ currentStep[p] = N
                                    /\ op = "simulationStep"
                                    /\ ~HasEvent(log, "animate")

\* C1 happens: a run bounded by N >= 1 has been stopped by its call N+1.
C1_Witness ==
    /\ stepCalls >= 0
    /\ totalSteps[parameterNode] >= 1
    /\ stepCalls = totalSteps[parameterNode] + 1
    /\ ~isSimulationRunning[parameterNode]
    /\ currentStep[parameterNode] = totalSteps[parameterNode]

\* C2: with totalSteps = -1, after setupScene and startSimulation, no
\* simulationStep sets isSimulationRunning false or changes currentStep,
\* which stays 0, and every such call advances the engine.
C2_UnboundedRunState ==
    (stepCalls >= 0 /\ totalSteps[parameterNode] = -1) =>
        /\ isSimulationRunning[parameterNode]
        /\ currentStep[parameterNode] = 0
        /\ stepCalls >= 1 => CountEvents(log, "animate") = 1

C2_UnboundedRunStep ==
    (/\ op' = "simulationStep"
     /\ sceneUp
     /\ isSimulationRunning[parameterNode]
     /\ totalSteps[parameterNode] = -1)
        => /\ isSimulationRunning'[parameterNode]
           /\ currentStep'[parameterNode] = currentStep[parameterNode]

C2_UnboundedRun == [](C2_UnboundedRunState) /\ [][C2_UnboundedRunStep]_vars

\* C2 happens: an unbounded run has been stepped as many times as are counted.
C2_Witness ==
    /\ stepCalls = MaxStepCalls
    /\ totalSteps[parameterNode] = -1
    /\ isSimulationRunning[parameterNode]
    /\ HasEvent(log, "animate")

\* C3: simulationStep on a scene that is not Built (a controller that never
\* had setupScene called included) or whose container is not running raises
\* nothing, shows the message and nothing else (no mover, no engine call), and
\* changes no field of the controller, of the containers or of the descriptors.
C3_Refused ==
    \/ ~sceneUp
    \/ parameterNode = None
    \/ ~isSimulationRunning[parameterNode]

C3_RefusedStepStep ==
    (op' = "simulationStep" /\ C3_Refused)
        => /\ raised' = NoError
           /\ log' = <<Event("errorDisplay", "", "")>>
           /\ UNCHANGED <<Controller, Fields_of_containers, Descriptors>>

C3_RefusedStep == [][C3_RefusedStepStep]_vars

\* C3 happens: simulationStep was called on a controller that never had a
\* container, and showed the message.
C3_Witness ==
    /\ op = "simulationStep"
    /\ parameterNode = None
    /\ log = <<Event("errorDisplay", "", "")>>

\* C4: on a Built scene setupScene, whatever its arguments, executes no Push
\* and no engine initialisation, raises nothing and leaves the stored
\* container, the stored handle and the Built flag (and everything else)
\* unchanged; the call that built the scene executed exactly one Push, then
\* the initialisation.  So one Push has executed for a Built scene.
C4_SetupOnceStep ==
    /\ (op' = "setupScene" /\ sceneUp)
          => /\ raised' = NoError
             /\ log' = <<>>
             /\ UNCHANGED <<Controller, Fields_of_containers, Descriptors>>
    /\ (op' = "setupScene" /\ ~sceneUp /\ sceneUp')
          => /\ raised' = NoError
             /\ CountEvents(log', "__updateSofa__") = 1
             /\ CountEvents(log', "init") = 1
             /\ log'[1] = Event("__updateSofa__", "", rootNode')
             /\ log'[Len(log')] = Event("init", "", rootNode')

C4_SetupOnce == [][C4_SetupOnceStep]_vars

\* C4 happens: setupScene was called on a Built scene and did nothing.
C4_Witness ==
    /\ op = "setupScene"
    /\ sceneUp
    /\ log = <<>>
    /\ raised = NoError

\* C5: clean right after clean changes nothing: the controller, the
\* containers and the descriptors are as the first clean left them, the
\* engine is not unloaded again, and nothing is raised.
C5_CleanTwiceStep ==
    (op = "clean" /\ op' = "clean")
        => /\ raised' = NoError
           /\ log' = <<>>
           /\ UNCHANGED <<Controller, Fields_of_containers, Descriptors>>

C5_CleanTwice == [][C5_CleanTwiceStep]_vars

\* C5 happens: clean was called twice in a row on a controller that has had a
\* scene, and the second call left it Idle without unloading anything.
C5_Witness ==
    /\ cleanCalls = 2
    /\ op = "clean"
    /\ parameterNode # None
    /\ ~sceneUp
    /\ rootNode = None
    /\ log = <<>>

\* The input movers that a Push would invoke now all find their node under r.
C6_InputsResolve(r) ==
    \A f \in Fields :
        (/\ registry[f].inputMapping # None
         /\ ~(registry[f].inputMapping = "Once" /\ inputMapping_has_run[f]))
            => (registry[f].nodeName \in {None, ""} \/ registry[f].nodeName \in Graph(r))

\* The state a clean of a Built scene leaves.
C6_Cleaned == op = "clean" /\ Len(log) = 1 /\ log[1][1] = "unload"

\* C6: clean of a Built scene (running or not) unloads the engine graph and
\* leaves the controller Idle: scene-up flag false, handle cleared,
\* isSimulationRunning false.  A simulationStep that follows is refused, and a
\* setupScene that follows with a wrapped container and a root handle builds
\* the scene again (Push, engine initialisation, Built flag) whenever the
\* input movers find their nodes, as they do under the handle just unloaded.
C6_CleanToIdleStep ==
    /\ (op' = "clean" /\ sceneUp)
          => /\ ~sceneUp'
             /\ rootNode' = None
             /\ ~isSimulationRunning'[parameterNode']
             /\ log' = <<Event("unload", "", rootNode)>>
             /\ raised' = NoError
    /\ (C6_Cleaned /\ op' = "simulationStep")
          => /\ log' = <<Event("errorDisplay", "", "")>>
             /\ UNCHANGED <<Controller, Fields_of_containers, Descriptors>>
    /\ \A c \in Containers, r \in Roots :
          (C6_Cleaned /\ setupScene(c, r))
             => /\ (C6_InputsResolve(r) \/ r = log[1][3]) => raised' = NoError
                /\ raised' = NoError
                      => /\ sceneUp'
                         /\ rootNode' = r
                         /\ parameterNode' = c
                         /\ log'[1] = Event("__updateSofa__", "", r)
                         /\ log'[Len(log')] = Event("init", "", r)

C7_InvalidArgumentStep ==
    \A c \in ContainerArgs, r \in RootArgs :
        (/\ ~sceneUp
         /\ setupScene(c, r)
         /\ (c \notin Containers \/ r \notin Roots))
            => /\ raised' = ValueError
               /\ log' = <<>>
               /\ ~sceneUp'

C7_InvalidArgument == [][C7_InvalidArgumentStep]_vars

\* A descriptor whose output mover a Pull would invoke now and whose node
\* name is that of no node under the held root.
C8_OutputTargetMissing ==
    \E f \in Fields :
        /\ registry[f].outputMapping # None
        /\ ~(registry[f].outputMapping = "Once" /\ outputMapping_has_run[f])
        /\ registry[f].nodeName \notin {None, ""}
        /\ registry[f].nodeName \notin Graph(rootNode)

\* C8 as stated: no simulationStep raises, and NodeNotFound is raised by
\* setupScene only.
C8_StepNeverRaisesStep ==
    /\ op' = "simulationStep" => raised' = NoError
    /\ raised' = NodeNotFound => op' = "setupScene"

C8_StepNeverRaises == [][C8_StepNeverRaisesStep]_vars

\* C8 amended: a refused simulationStep raises nothing; a simulationStep on a
\* Built, running scene raises nothing from its Push, and raises NodeNotFound,
\* from its Pull and after the engine step or the auto-stop, exactly when a
\* descriptor whose output mover is due names a node missing from the graph.
C8_StepRaisesFromPullOnlyStep ==
    op' = "simulationStep"
        => /\ raised' \in {NoError, NodeNotFound}
           /\ C3_Refused => raised' = NoError
           /\ ~C3_Refused => (raised' = NodeNotFound <=> C8_OutputTargetMissing)
           /\ raised' = NodeNotFound
                 => /\ CountEvents(log', "__updateSofa__") = 1
                    /\ CountEvents(log', "__updateMRML__") = 1
                    /\ (HasEvent(log', "animate") \/ ~isSimulationRunning'[parameterNode])

C8_StepRaisesFromPullOnly == [][C8_StepRaisesFromPullOnlyStep]_vars

\* C8 happens: a simulationStep raised NodeNotFound.
C8_Witness ==
    /\ op = "simulationStep"
    /\ raised = NodeNotFound
    /\ sceneUp

\* C9: a run-once mover is invoked at most once per descriptor and direction,
\* whatever the calls made: its has-run flag is set exactly when it has been
\* invoked, each direction by its own invocations, and stays set across clean
\* and a new setupScene.  The flags of the other movers stay false.
C9_RunOnce ==
    \A f \in Fields :
        /\ inputRuns[f] <= 1
        /\ outputRuns[f] <= 1
        /\ inputMapping_has_run[f] <=> inputRuns[f] = 1
        /\ outputMapping_has_run[f] <=> outputRuns[f] = 1
        /\ inputMapping_has_run[f] => registry[f].inputMapping = "Once"
        /\ outputMapping_has_run[f] => registry[f].outputMapping = "Once"

\* C9 happens: a scene that had been stepped was cleaned and built again, and
\* the Push of the new setupScene skipped the run-once input mover of f1.
C9_Witness ==
    /\ op = "setupScene"
    /\ sceneUp
    /\ HasEvent(log, "init")
    /\ registry["f1"].inputMapping = "Once"
    /\ inputRuns["f1"] = 1
    /\ \A i \in 1..Len(log) : log[i][1] # "inputMapping" \/ log[i][2] # "f1"
    /\ outputRuns["f2"] = 1

\* C10: startSimulation on a Built scene (running, stopped or never started)
\* sets currentStep to 0 and isSimulationRunning to true on the stored
\* container and changes nothing else; a bounded run that had stopped by
\* itself then runs again for its N steps.
C10_StartStep ==
    (op' = "startSimulation" /\ sceneUp)
        => /\ raised' = NoError
           /\ log' = <<>>
           /\ currentStep' = [currentStep EXCEPT ![parameterNode] = 0]
           /\ isSimulationRunning' = [isSimulationRunning EXCEPT ![parameterNode] = TRUE]
           /\ UNCHANGED <<Controller, totalSteps, Descriptors>>

C10_RestartedRun ==
    (restarted /\ stepCalls >= 0 /\ stepCalls <= totalSteps[parameterNode])
        => /\ isSimulationRunning[parameterNode]
           /\ currentStep[parameterNode] = stepCalls

C10_Start == [](C10_RestartedRun) /\ [][C10_StartStep]_vars

\* C10 happens: a run bounded by N >= 1 that had stopped by itself was
\* started again and has made its N steps.
C10_Witness ==
    /\ restarted
    /\ totalSteps[parameterNode] >= 1
    /\ stepCalls = totalSteps[parameterNode]
    /\ currentStep[parameterNode] = totalSteps[parameterNode]
    /\ isSimulationRunning[parameterNode]

\* C11: stopSimulation on a Built scene sets isSimulationRunning of the
\* stored container to false and changes nothing else (currentStep, scene-up
\* flag, handle); on a scene that is not Built it changes nothing at all.  It
\* raises nothing either way.
C11_StopStep ==
    op' = "stopSimulation"
        => /\ raised' = NoError
           /\ log' = <<>>
           /\ UNCHANGED <<Controller, currentStep, totalSteps, Descriptors>>
           /\ sceneUp => isSimulationRunning' =
                             [isSimulationRunning EXCEPT ![parameterNode] = FALSE]
           /\ ~sceneUp => UNCHANGED isSimulationRunning

C11_Stop == [][C11_StopStep]_vars

\* C11 happens: stopSimulation was called on a scene that is not Built and
\* left the stored container running.
C11_Witness ==
    /\ op = "stopSimulation"
    /\ ~sceneUp
    /\ parameterNode # None
    /\ isSimulationRunning[parameterNode]

\* C14 as stated: whatever totalSteps is, a simulationStep that advances the
\* engine adds one to currentStep.
C14_AdvanceIncrementsStep ==
    (op' = "simulationStep" /\ HasEvent(log', "animate"))
        => currentStep'[parameterNode] = currentStep[parameterNode] + 1

C14_AdvanceIncrements == [][C14_AdvanceIncrementsStep]_vars

\* C14 amended: with totalSteps >= 0 a simulationStep that advances the engine
\* adds exactly one to currentStep, so that on a scene that stays Built
\* currentStep is the number of engine steps since startSimulation; with a
\* negative totalSteps the engine is advanced and currentStep is left as it is.
C14_CountsAdvances ==
    (advances >= 0 /\ totalSteps[parameterNode] >= 0)
        => currentStep[parameterNode] = advances

C14_AdvanceIncrementsIfBoundedStep ==
    (op' = "simulationStep" /\ HasEvent(log', "animate"))
        => /\ CountEvents(log', "animate") = 1
           /\ currentStep' = [currentStep EXCEPT ![parameterNode] =
                                IF totalSteps[parameterNode] >= 0 THEN @ + 1 ELSE @]

C14_AdvanceIncrementsIfBounded ==
    [](C14_CountsAdvances) /\ [][C14_AdvanceIncrementsIfBoundedStep]_vars

\* C14 happens: a bounded run has advanced the engine and counted it.
C14_Witness ==
    /\ op = "simulationStep"
    /\ HasEvent(log, "animate")
    /\ totalSteps[parameterNode] >= 1
    /\ advances = 1
    /\ currentStep[parameterNode] = 1

\* The places of the events of one kind in a log.
C15_At(lg, kinds) == {i \in 1..Len(lg) : lg[i][1] \in kinds}

\* C15: a simulationStep that is not refused executes one Push, then at most
\* one engine step, then one Pull, in that order; the call that stops a
\* bounded run executes Push and Pull too, without an engine step.
C15_PushStepPullStep ==
    (op' = "simulationStep" /\ ~C3_Refused)
        => /\ C15_At(log', {"__updateSofa__"}) = {1}
           /\ Cardinality(C15_At(log', {"animate"})) <= 1
           /\ Cardinality(C15_At(log', {"__updateMRML__"})) = 1
           /\ C15_At(log', {"init", "unload", "errorDisplay"}) = {}
           /\ \A i \in C15_At(log', {"inputMapping"}) :
                 \A j \in C15_At(log', {"animate", "__updateMRML__", "outputMapping"}) : i < j
           /\ \A i \in C15_At(log', {"animate"}) :
                 \A j \in C15_At(log', {"__updateMRML__", "outputMapping"}) : i < j
           /\ \A i \in C15_At(log', {"__updateMRML__"}) :
                 \A j \in C15_At(log', {"outputMapping"}) : i < j
           /\ HasEvent(log', "animate") <=>
                 (currentStep[parameterNode] < totalSteps[parameterNode]
                    \/ totalSteps[parameterNode] < 0)
           /\ ~HasEvent(log', "animate") => ~isSimulationRunning'[parameterNode]

C15_PushStepPull == [][C15_PushStepPullStep]_vars

\* C15 happens: the call that stopped a bounded run executed Push and Pull and
\* no engine step.
C15_Witness ==
    /\ op = "simulationStep"
    /\ sceneUp
    /\ ~isSimulationRunning[parameterNode]
    /\ HasEvent(log, "__updateSofa__")
    /\ HasEvent(log, "__updateMRML__")
    /\ ~HasEvent(log, "animate")

\* A mover that a pass would invoke: there is one, and it is not a run-once
\* mover that has run.
C16_Due(mover, has_run) == mover # None /\ ~(mover = "Once" /\ has_run)

C16_DueInputs ==
    SelectSeq(FieldOrder,
              LAMBDA f : C16_Due(registry[f].inputMapping, inputMapping_has_run[f]))
C16_DueOutputs ==
    SelectSeq(FieldOrder,
              LAMBDA f : C16_Due(registry[f].outputMapping, outputMapping_has_run[f]))

C16_Missing(r, f) ==
    registry[f].nodeName \notin {None, ""} /\ registry[f].nodeName \notin Graph(r)

C16_Target(f) ==
    IF registry[f].nodeName \in {None, ""} THEN "root" ELSE registry[f].nodeName

\* The fields of `due` that come before the first one whose node is missing.
C16_Reached(due, r) ==
    LET bad == {i \in 1..Len(due) : C16_Missing(r, due[i])}
    IN  IF bad = {} THEN due
        ELSE SubSeq(due, 1, (CHOOSE i \in bad : \A j \in bad : i <= j) - 1)

C16_Calls(kind, fs) == [i \in 1..Len(fs) |-> Event(kind, fs[i], C16_Target(fs[i]))]

C16_Of(lg, kind) == SelectSeq(lg, LAMBDA e : e[1] = kind)

\* C16 as stated: every Push invokes the input mover of every descriptor that
\* has one due, once each, on the node of its name (the root for an empty or
\* unset name), and no output mover; every Pull likewise with output movers.
C16_EveryDueMoverStep ==
    /\ HasEvent(log', "__updateSofa__")
          => C16_Of(log', "inputMapping") = C16_Calls("inputMapping", C16_DueInputs)
    /\ HasEvent(log', "__updateMRML__")
          => C16_Of(log', "outputMapping") = C16_Calls("outputMapping", C16_DueOutputs)
    /\ op' = "setupScene" => C16_Of(log', "outputMapping") = <<>>

C16_EveryDueMover == [][C16_EveryDueMoverStep]_vars

\* C16 amended: a pass that finds the node of every due mover invokes each of
\* them once, in declaration order, on the node of its name (the root for an
\* empty or unset name), and no mover of the other direction; a descriptor
\* with no mover for the direction, or with a run-once mover that has run, is
\* passed over without its node being looked up.  A pass that finds the node
\* of a due mover missing raises NodeNotFound there, having invoked only the
\* due movers declared before it.
C16_PassStep ==
    /\ HasEvent(log', "__updateSofa__")
          => /\ C16_Of(log', "inputMapping") =
                   C16_Calls("inputMapping", C16_Reached(C16_DueInputs, rootNode'))
             /\ C16_Reached(C16_DueInputs, rootNode') = C16_DueInputs
                   <=> (raised' = NoError \/ HasEvent(log', "__updateMRML__"))
    /\ HasEvent(log', "__updateMRML__")
          => /\ C16_Of(log', "outputMapping") =
                   C16_Calls("outputMapping", C16_Reached(C16_DueOutputs, rootNode'))
             /\ C16_Reached(C16_DueOutputs, rootNode') = C16_DueOutputs
                   <=> raised' = NoError
    /\ ~HasEvent(log', "__updateSofa__") => C16_Of(log', "inputMapping") = <<>>
    /\ ~HasEvent(log', "__updateMRML__") => C16_Of(log', "outputMapping") = <<>>
    /\ op' = "setupScene" => ~HasEvent(log', "__updateMRML__")

C16_Pass == [][C16_PassStep]_vars

\* C16 happens: a Push invoked the input mover of f1 and then found the node
\* of f2 missing.
C16_Witness ==
    /\ op = "setupScene"
    /\ raised = NodeNotFound
    /\ C16_Of(log, "inputMapping") = <<Event("inputMapping", "f1", C16_Target("f1"))>>
    /\ registry["f2"].inputMapping # None

\* C17: isSimulationRunning of the stored container is true only on a Built
\* scene (scene-up flag true and root handle set).
C17_RunningOnlyIfBuilt ==
    (parameterNode # None /\ isSimulationRunning[parameterNode])
        => (sceneUp /\ rootNode # None)

\* C18: a setupScene that raises leaves the stored container, the stored
\* handle and the scene-up flag as they were.
C18_FailedSetupNoEffectStep ==
    (op' = "setupScene" /\ raised' # NoError)
        => UNCHANGED <<parameterNode, rootNode, sceneUp>>

C18_FailedSetupNoEffect == [][C18_FailedSetupNoEffectStep]_vars

\* C19: with totalSteps = N >= 0, currentStep stays within 0..N, and between
\* startSimulation on a Built scene and the next startSimulation the engine is
\* advanced at most N times, whatever simulationStep, stopSimulation and
\* setupScene calls are made in between.
C19_Bounded ==
    \A c \in Containers :
        totalSteps[c] >= 0
            => /\ 0 <= currentStep[c]
               /\ currentStep[c] <= totalSteps[c]
               /\ (advances >= 0 /\ parameterNode = c) => advances <= totalSteps[c]

\* C19 happens: a run bounded by N >= 1 has made its N engine steps and was
\* then stepped, stopped and set up again without a further engine step.
C19_Witness ==
    /\ op = "setupScene"
    /\ sceneUp
    /\ totalSteps[parameterNode] >= 1
    /\ advances = totalSteps[parameterNode]
    /\ currentStep[parameterNode] = totalSteps[parameterNode]
    /\ ~isSimulationRunning[parameterNode]

\* C12: SofaNodeMapper(...) with an inputMapping or an outputMapping that is
\* given and is not callable raises ValueError (InvalidArgument) and gives no
\* descriptor to declare; with each of them unset or callable it raises
\* nothing and gives a descriptor holding the arguments, both has-run flags
\* false.  So no declared descriptor holds a mover that is not callable.
C12_Constructor ==
    /\ op = "SofaNodeMapper"
          => /\ raised = ValueError
                   <=> (made.inputMapping = "NotCallable" \/ made.outputMapping = "NotCallable")
             /\ raised = ValueError => made.value.kind = "None"
             /\ raised # ValueError
                   => /\ raised = NoError
                      /\ made.value.kind = "SofaNodeMapper"
                      /\ made.value.mapper.nodeName = made.nodeName
                      /\ made.value.mapper.inputMapping = made.inputMapping
                      /\ made.value.mapper.outputMapping = made.outputMapping
                      /\ ~made.value.mapper.inputMapping_has_run
                      /\ ~made.value.mapper.outputMapping_has_run
    /\ \A k \in 1..Len(classDict) :
          classDict[k][2].kind = "SofaNodeMapper"
             => /\ classDict[k][2].mapper.inputMapping \in {None, "Every", "Once"}
                /\ classDict[k][2].mapper.outputMapping \in {None, "Every", "Once"}

\* C12 happens: a call with a callable inputMapping and an outputMapping that
\* is not callable raised ValueError.
C12_Witness ==
    /\ op = "SofaNodeMapper"
    /\ made.inputMapping = "Every"
    /\ made.outputMapping = "NotCallable"
    /\ raised = ValueError
    /\ made.value.kind = "None"

\* C13: the registry the wrapper builds holds exactly the fields whose
\* declared value is a descriptor, each under its own name and in declaration
\* order (no control field of the wrapper's and no plain field among them),
\* and building it again from the class gives the same registry.
C13_RegistryExactStep ==
    (op' = "sofaParameterNodeWrapper" /\ raised' = NoError)
        => /\ wraps = 0
                 => mappers' = SelectSeq(classDict, LAMBDA e : e[2].kind = "SofaNodeMapper")
           /\ wraps >= 1 => mappers' = mappers
           /\ \A k \in 1..Len(mappers') : mappers'[k][2].kind = "SofaNodeMapper"

C13_RegistryExact == [][C13_RegistryExactStep]_vars

====
